---- MODULE Spec2Model ----
(***************************************************************************)
(* Model of the vector-index / metadata consistency engine of the IMAP     *)
(* e-mail CLI: EmbeddingManager (embedding.py), IMAPClient's UIDVALIDITY   *)
(* check (imap_client.py), MetadataStore (metadata_store.py) and the       *)
(* fetch_emails command that drives them (main.py), and of the search      *)
(* calls that read them: SearchManager (search.py) and                     *)
(* EmbeddingManager.search_similar_emails.                                 *)
(*                                                                         *)
(* The three persisted artifacts (FAISS index file, mapping file, token    *)
(* file) and the SQLite table are the durable state; everything else is    *)
(* the memory of the one running process and is lost when it stops.        *)
(***************************************************************************)
EXTENDS Integers, Sequences, FiniteSets, TLC

\* ---------------------------------------------------------------- bounds
MaxLen == 3        \* longest record sequence handed to embed_emails / fetched
MaxIndex == 4      \* cap on the number of vectors in the index
MaxBatch == 2      \* EMBEDDING_BATCH_SIZE ranges over 1..MaxBatch
MaxToken == 2      \* UIDVALIDITY values are 1..MaxToken
MaxCrashes == 1    \* process stops in the middle of an operation, per behaviour

UIDs == {"1", "2", "3"}
Bodies == {"a"}
Tokens == 1..MaxToken

\* Python's None where an int is expected
None == -1

\* ------------------------------------------------------- pure helpers
\* str(n) for the small non-negative integers of the model
Digits == <<"0", "1", "2", "3", "4", "5", "6", "7", "8", "9">>
Str(n) == Digits[n + 1]

\* int(text.strip()) of _load_last_uid_validity; ValueError gives None
ParseInt(text) ==
    IF \E n \in 0..9 : Digits[n + 1] = text
    THEN CHOOSE n \in 0..9 : Digits[n + 1] = text
    ELSE None

\* a Python dict as a function with a finite domain
EmptyDict == [k \in {} |-> 0]
DictSet(d, k, v) == [x \in (DOMAIN d) \cup {k} |-> IF x = k THEN v ELSE d[x]]
DictLen(d) == Cardinality(DOMAIN d)

Records == [uid : UIDs, body : Bodies]

RECURSIVE SeqsUpTo(_, _)
SeqsUpTo(S, n) ==
    IF n = 0 THEN {<<>>}
    ELSE LET shorter == SeqsUpTo(S, n - 1)
         IN  shorter \cup {Append(s, x) : s \in {t \in shorter : Len(t) = n - 1}, x \in S}

UidsOf(emails) == {emails[j].uid : j \in 1..Len(emails)}
UniqueUids(emails) == Cardinality(UidsOf(emails)) = Len(emails)

\* every argument a caller may hand to embed_emails
AnyEmails == SeqsUpTo(Records, MaxLen)
\* what IMAPClient.fetch_emails returns: one record per message UID
FetchedEmails == {e \in AnyEmails : UniqueUids(e)}

\* the model's text -> vector oracle (SentenceTransformer.encode)
Encode(text) == <<"vec", text>>

VARIABLES
    \* durable state
    indexFile,          \* faiss_index.bin: [exists, vecs]
    mappingFile,        \* faiss_mapping.json: [exists, uid_to_faiss_id, faiss_id_to_uid]
    tokenFile,          \* uidvalidity.txt: [exists, text]
    db,                 \* emails table: uid -> [uidvalidity, body]
    \* environment
    mboxToken,          \* the mailbox's current UIDVALIDITY
    batchSize,          \* Config.EMBEDDING_BATCH_SIZE
    \* the running process
    pc, ret, mode,
    index,              \* self.index: sequence of [uid, vec]; uid is bookkeeping only
    uid_to_faiss_id, faiss_id_to_uid,
    new_emails, i, start_id,
    current_uidvalidity, uid_validity_changed, fetched_emails,
    \* history
    lastR, lastEnd, callKind, startN, startMaps, crashes, dupCalled, startTok,
    statusOK,
    attempts,           \* oracle calls made for the batch whose failure reached
                        \* the caller last; 0 while no failure has
    \* one search call
    request,            \* the arguments of the call
    neighbours,         \* what index.search returns for the query: [idx, distance]
    results,            \* the list the call returns
    lookups             \* queries the call has sent to the emails table

diskVars == <<indexFile, mappingFile, tokenFile, db>>
envVars == <<mboxToken, batchSize>>
mgrVars == <<index, uid_to_faiss_id, faiss_id_to_uid>>
callVars == <<new_emails, i, start_id>>
imapVars == <<current_uidvalidity, uid_validity_changed, fetched_emails>>
histVars == <<lastR, lastEnd, callKind, startN, startMaps, crashes, dupCalled,
              startTok, statusOK, attempts>>
searchVars == <<request, neighbours, results, lookups>>
vars == <<diskVars, envVars, pc, ret, mode, mgrVars, callVars, imapVars, histVars,
          searchVars>>

NoIndexFile == [exists |-> FALSE, vecs |-> <<>>]
NoMappingFile == [exists |-> FALSE, uid_to_faiss_id |-> EmptyDict, faiss_id_to_uid |-> EmptyDict]
NoTokenFile == [exists |-> FALSE, text |-> ""]
\* no search call is being made
NoRequest == [query |-> <<>>, date_after |-> None, date_before |-> None,
              sender |-> <<>>, regex |-> <<>>, limit |-> 0]

Init ==
    /\ indexFile = NoIndexFile
    /\ mappingFile = NoMappingFile
    /\ tokenFile = NoTokenFile
    /\ db = EmptyDict
    /\ mboxToken = 1
    /\ batchSize \in 1..MaxBatch
    /\ pc = "idle" /\ ret = "idle" /\ mode = "none"
    /\ index = <<>> /\ uid_to_faiss_id = EmptyDict /\ faiss_id_to_uid = EmptyDict
    /\ new_emails = <<>> /\ i = 0 /\ start_id = 0
    /\ current_uidvalidity = None /\ uid_validity_changed = FALSE /\ fetched_emails = <<>>
    /\ lastR = <<>> /\ lastEnd = "none" /\ callKind = "first"
    /\ startN = 0 /\ startMaps = <<0, 0>>
    /\ crashes = 0 /\ dupCalled = FALSE /\ startTok = NoTokenFile /\ statusOK = FALSE
    /\ attempts = 0
    /\ request = NoRequest /\ neighbours = <<>> /\ results = <<>> /\ lookups = 0

\* ------------------------------------------------ EmbeddingManager
\* mutant: the filter that forgets to look at uid_to_faiss_id
NewEmails_NoFilter(emails, u2f) == emails

\* embed_emails' filter: records whose uid is not yet a key of uid_to_faiss_id
NewEmails(emails, u2f) == SelectSeq(emails, LAMBDA e : e.uid \notin DOMAIN u2f)

\* mutant: batches of one record, whatever the batch size
Batch_SingleRecord(new, off, size) == SubSeq(new, off + 1, off + 1)

\* new_emails[off : off + size]
Batch(new, off, size) ==
    SubSeq(new, off + 1, IF off + size < Len(new) THEN off + size ELSE Len(new))

\* mutant: positions counted from 0 in every batch
FaissId_FromZero(start, j) == j

\* faiss_id = start_id + i of _embed_batch (j is the 0-based enumerate index)
FaissId(start, j) == start + j

\* mutant: the loop that updates uid_to_faiss_id only
RECURSIVE UpdateMappings_OneWay(_, _, _, _)
UpdateMappings_OneWay(maps, batch, start, j) ==
    IF j >= Len(batch) THEN maps
    ELSE UpdateMappings_OneWay([u2f |-> DictSet(maps.u2f, batch[j + 1].uid, start + j),
                                f2u |-> maps.f2u],
                               batch, start, j + 1)

\* the "Update mappings" loop of _embed_batch, from enumerate index j on
RECURSIVE UpdateMappings(_, _, _, _)
UpdateMappings(maps, batch, start, j) ==
    IF j >= Len(batch) THEN maps
    ELSE LET faiss_id == FaissId(start, j)
             uid == batch[j + 1].uid
         IN  UpdateMappings([u2f |-> DictSet(maps.u2f, uid, faiss_id),
                             f2u |-> DictSet(maps.f2u, Str(faiss_id), uid)],
                            batch, start, j + 1)

\* index.add(embeddings): one vector per record of the batch, in order
AddVectors(idx, batch) ==
    idx \o [j \in 1..Len(batch) |-> [uid |-> batch[j].uid, vec |-> Encode(batch[j].body)]]

\* mutant: the file that holds uid_to_faiss_id only
MappingData_OneDict(u2f, f2u) ==
    [exists |-> TRUE, uid_to_faiss_id |-> u2f, faiss_id_to_uid |-> EmptyDict]

\* what json.dump writes for the two dicts
MappingData(u2f, f2u) ==
    [exists |-> TRUE, uid_to_faiss_id |-> u2f, faiss_id_to_uid |-> f2u]

\* the memory of a process that is not running
ResetMemory ==
    /\ pc' = "idle" /\ ret' = "idle" /\ mode' = "none"
    /\ index' = <<>> /\ uid_to_faiss_id' = EmptyDict /\ faiss_id_to_uid' = EmptyDict
    /\ new_emails' = <<>> /\ i' = 0 /\ start_id' = 0
    /\ current_uidvalidity' = None /\ uid_validity_changed' = FALSE
    /\ fetched_emails' = <<>>

\* EmbeddingManager(): __init__ and _load_or_create_index, continuing at retpc.
\* An existing index file is read together with whatever _load_mapping finds;
\* otherwise a new empty index is created and _save_index follows.
LoadExisting(retpc) ==
    /\ indexFile.exists
    /\ index' = indexFile.vecs
    /\ uid_to_faiss_id' = IF mappingFile.exists THEN mappingFile.uid_to_faiss_id ELSE EmptyDict
    /\ faiss_id_to_uid' = IF mappingFile.exists THEN mappingFile.faiss_id_to_uid ELSE EmptyDict
    /\ pc' = retpc
    /\ UNCHANGED ret

\* mutant: a new index next to the dicts as they are
CreateNew_KeepDicts(retpc) ==
    /\ ~indexFile.exists
    /\ index' = <<>>
    /\ UNCHANGED <<uid_to_faiss_id, faiss_id_to_uid>>
    /\ pc' = "save_index"
    /\ ret' = retpc

CreateNew(retpc) ==
    /\ ~indexFile.exists
    /\ index' = <<>>
    /\ uid_to_faiss_id' = EmptyDict
    /\ faiss_id_to_uid' = EmptyDict
    /\ pc' = "save_index"
    /\ ret' = retpc

NewManager(retpc) == LoadExisting(retpc) \/ CreateNew(retpc)

\* a process that uses the manager directly (tests, search, status)
LibNew ==
    /\ pc = "idle"
    /\ mode' = "lib"
    /\ NewManager("ready")
    /\ UNCHANGED <<diskVars, envVars, callVars, imapVars, histVars>>
    /\ UNCHANGED searchVars

\* embed_emails(emails) up to the start of the batch loop
EmbedEmailsCall(emails, donepc) ==
    /\ Len(index) + Len(emails) <= MaxIndex
    /\ LET new == IF emails = <<>> THEN <<>> ELSE NewEmails(emails, uid_to_faiss_id)
       IN  /\ new_emails' = new
           /\ i' = 0
           /\ IF new = <<>>
              THEN /\ pc' = donepc
                   /\ lastEnd' = "done"
                   /\ UNCHANGED ret
              ELSE /\ pc' = "embed_add"
                   /\ ret' = donepc
                   /\ lastEnd' = "running"
    /\ lastR' = emails
    /\ callKind' = IF emails = lastR /\ lastEnd = "done" THEN "repeat"
                   ELSE IF emails = lastR /\ lastEnd = "crash" THEN "retry"
                   ELSE "first"
    /\ startN' = Len(index)
    /\ startMaps' = <<DictLen(uid_to_faiss_id), DictLen(faiss_id_to_uid)>>
    /\ dupCalled' = (dupCalled \/ ~UniqueUids(emails))
    /\ UNCHANGED <<diskVars, envVars, mode, mgrVars, start_id, imapVars,
                   crashes, startTok, statusOK, attempts>>

LibEmbedEmails ==
    /\ pc = "ready" /\ mode = "lib"
    /\ \E emails \in AnyEmails : EmbedEmailsCall(emails, "ready")
    /\ UNCHANGED searchVars

\* _embed_batch, first half: encode the batch and index.add
EmbedAdd ==
    /\ pc = "embed_add"
    /\ LET batch == Batch(new_emails, i, batchSize)
       IN  /\ start_id' = Len(index)
           /\ index' = AddVectors(index, batch)
    /\ pc' = "embed_map"
    /\ UNCHANGED <<diskVars, envVars, ret, mode, uid_to_faiss_id, faiss_id_to_uid,
                   new_emails, i, imapVars, histVars>>
    /\ UNCHANGED searchVars

\* _embed_batch when self.model.encode raises: nothing catches the exception in
\* _embed_batch or embed_emails, so the first failed call ends embed_emails.  A
\* caller that uses the manager directly keeps the manager; fetch_emails ends
\* with Exit(1).
EmbedFail ==
    /\ pc = "embed_add"
    /\ attempts' = 1
    /\ lastEnd' = "error"
    /\ IF mode = "lib"
       THEN /\ pc' = "ready"
            /\ new_emails' = <<>> /\ i' = 0 /\ start_id' = 0
            /\ UNCHANGED <<ret, mode, mgrVars, imapVars>>
       ELSE ResetMemory
    /\ UNCHANGED <<diskVars, envVars, lastR, callKind, startN, startMaps, crashes,
                   dupCalled, startTok, statusOK>>
    /\ UNCHANGED searchVars

\* _embed_batch, second half: the mapping loop; then the next batch or _save_index
EmbedMap ==
    /\ pc = "embed_map"
    /\ LET batch == Batch(new_emails, i, batchSize)
           maps == UpdateMappings([u2f |-> uid_to_faiss_id, f2u |-> faiss_id_to_uid],
                                  batch, start_id, 0)
       IN  /\ uid_to_faiss_id' = maps.u2f
           /\ faiss_id_to_uid' = maps.f2u
    /\ i' = i + batchSize
    /\ pc' = IF i + batchSize < Len(new_emails) THEN "embed_add" ELSE "save_index"
    /\ UNCHANGED <<diskVars, envVars, ret, mode, index, new_emails, start_id,
                   imapVars, histVars>>
    /\ UNCHANGED searchVars

\* _save_index, first half: faiss.write_index
SaveIndexFile ==
    /\ pc = "save_index"
    /\ indexFile' = [exists |-> TRUE, vecs |-> index]
    /\ pc' = "save_mapping"
    /\ UNCHANGED <<mappingFile, tokenFile, db, envVars, ret, mode, mgrVars, callVars,
                   imapVars, histVars>>
    /\ UNCHANGED searchVars

\* _save_index, second half: _save_mapping.  When this ends embed_emails, the
\* call's locals go out of scope.
SaveMapping ==
    /\ pc = "save_mapping"
    /\ mappingFile' = MappingData(uid_to_faiss_id, faiss_id_to_uid)
    /\ pc' = ret
    /\ IF lastEnd = "running"
       THEN /\ lastEnd' = "done"
            /\ new_emails' = <<>> /\ i' = 0 /\ start_id' = 0
            /\ startN' = Len(index)
            /\ startMaps' = <<DictLen(uid_to_faiss_id), DictLen(faiss_id_to_uid)>>
       ELSE UNCHANGED <<lastEnd, callVars, startN, startMaps>>
    /\ UNCHANGED <<indexFile, tokenFile, db, envVars, ret, mode, mgrVars,
                   imapVars, lastR, callKind, crashes, dupCalled, startTok,
                   statusOK, attempts>>
    /\ UNCHANGED searchVars

\* clear_index: unlink the index file
ClearUnlinkIndex ==
    /\ \/ pc = "ready" /\ mode = "lib"
       \/ pc = "clear_index"
    /\ indexFile' = NoIndexFile
    /\ pc' = "clear_unlink_mapping"
    /\ UNCHANGED <<mappingFile, tokenFile, db, envVars, ret, mode, mgrVars, callVars,
                   imapVars, histVars>>
    /\ UNCHANGED searchVars

\* clear_index: unlink the mapping file, reset the dicts, recreate the index
ClearUnlinkMapping ==
    /\ pc = "clear_unlink_mapping"
    /\ mappingFile' = NoMappingFile
    /\ CreateNew(IF mode = "lib" THEN "ready" ELSE "fetch")
    /\ lastEnd' = "none" /\ lastR' = <<>> /\ callKind' = "first"
    /\ startN' = 0 /\ startMaps' = <<0, 0>>
    /\ dupCalled' = FALSE
    /\ UNCHANGED <<indexFile, tokenFile, db, envVars, mode, callVars, imapVars,
                   crashes, startTok, statusOK, attempts>>
    /\ UNCHANGED searchVars

\* the process ends normally
LibExit ==
    /\ pc = "ready" /\ mode = "lib"
    /\ ResetMemory
    /\ UNCHANGED <<diskVars, envVars, histVars>>
    /\ UNCHANGED searchVars

\* the process stops in the middle of an operation: memory is lost, files stay
Crash ==
    /\ pc \notin {"idle", "ready"}
    /\ crashes < MaxCrashes
    /\ ResetMemory
    /\ crashes' = crashes + 1
    /\ IF lastEnd \in {"running", "crash"}
       THEN lastEnd' = "crash" /\ UNCHANGED lastR
       ELSE lastEnd' = "none" /\ lastR' = <<>>
    /\ callKind' = "first" /\ startN' = 0 /\ startMaps' = <<0, 0>>
    /\ UNCHANGED <<diskVars, envVars, dupCalled, startTok, statusOK, attempts>>
    /\ UNCHANGED searchVars

\* ------------------------------------------------ IMAPClient, MetadataStore, main
\* _load_last_uid_validity: None for a missing file or one int() cannot read
LoadLastUidValidity(file) == IF file.exists THEN ParseInt(file.text) ELSE None

\* mutant: the comparison without the first-run case
TokenChanged_NoFirstRun(current, last) == current # last

\* the value check_uid_validity returns once it has read the mailbox's token
TokenChanged(current, last) == last # None /\ current # last

\* mutant: the token file is written in every cycle
TokenSaved_Always(current, last) == TRUE

\* whether check_uid_validity calls _save_current_uid_validity
TokenSaved(current, last) == last = None \/ current # last

\* mutant: INSERT OR IGNORE, the row already stored wins
RECURSIVE Upsert_KeepFirst(_, _, _)
Upsert_KeepFirst(table, emails, uidvalidity) ==
    IF emails = <<>> THEN table
    ELSE Upsert_KeepFirst(IF Head(emails).uid \in DOMAIN table THEN table
                          ELSE DictSet(table, Head(emails).uid,
                                       [uidvalidity |-> uidvalidity,
                                        body |-> Head(emails).body]),
                          Tail(emails), uidvalidity)

\* INSERT OR REPLACE of every record, with the client's current_uidvalidity
RECURSIVE Upsert(_, _, _)
Upsert(table, emails, uidvalidity) ==
    IF emails = <<>> THEN table
    ELSE Upsert(DictSet(table, Head(emails).uid,
                        [uidvalidity |-> uidvalidity, body |-> Head(emails).body]),
                Tail(emails), uidvalidity)

\* main.fetch_emails starts: IMAPClient() and MetadataStore() are constructed
FetchCmd ==
    /\ pc = "idle"
    /\ pc' = "check"
    /\ mode' = "fetch"
    /\ startTok' = tokenFile
    /\ statusOK' = FALSE
    /\ UNCHANGED <<diskVars, envVars, ret, mgrVars, callVars, imapVars,
                   lastR, lastEnd, callKind, startN, startMaps, crashes, dupCalled,
                   attempts>>
    /\ UNCHANGED searchVars

\* mutant: a token that could not be read is reported as a changed token
CheckUidValidityFail_Changed ==
    /\ pc = "check"
    /\ uid_validity_changed' = TRUE
    /\ statusOK' = FALSE
    /\ pc' = "checked"
    /\ UNCHANGED <<diskVars, envVars, ret, mode, mgrVars, callVars,
                   current_uidvalidity, fetched_emails,
                   lastR, lastEnd, callKind, startN, startMaps, crashes, dupCalled, startTok,
                   attempts>>
    /\ UNCHANGED searchVars

\* check_uid_validity when the STATUS call fails, its response has no token,
\* or an exception is raised: False, nothing read, nothing written
CheckUidValidityFail ==
    /\ pc = "check"
    /\ uid_validity_changed' = FALSE
    /\ statusOK' = FALSE
    /\ pc' = "checked"
    /\ UNCHANGED <<diskVars, envVars, ret, mode, mgrVars, callVars,
                   current_uidvalidity, fetched_emails,
                   lastR, lastEnd, callKind, startN, startMaps, crashes, dupCalled, startTok,
                   attempts>>
    /\ UNCHANGED searchVars

\* check_uid_validity when the token is read; a save starts with open(..., 'w'),
\* which leaves the file empty until the write
CheckUidValidity ==
    /\ pc = "check"
    /\ LET last == LoadLastUidValidity(tokenFile)
       IN  /\ current_uidvalidity' = mboxToken
           /\ uid_validity_changed' = TokenChanged(mboxToken, last)
           /\ IF TokenSaved(mboxToken, last)
              THEN /\ tokenFile' = [exists |-> TRUE, text |-> ""]
                   /\ pc' = "token_write"
              ELSE /\ UNCHANGED tokenFile
                   /\ pc' = "checked"
    /\ statusOK' = TRUE
    /\ UNCHANGED <<indexFile, mappingFile, db, envVars, ret, mode, mgrVars, callVars,
                   fetched_emails,
                   lastR, lastEnd, callKind, startN, startMaps, crashes, dupCalled, startTok,
                   attempts>>
    /\ UNCHANGED searchVars

\* _save_current_uid_validity: f.write(str(uid_validity))
TokenWrite ==
    /\ pc = "token_write"
    /\ tokenFile' = [exists |-> TRUE, text |-> Str(current_uidvalidity)]
    /\ pc' = "checked"
    /\ UNCHANGED <<indexFile, mappingFile, db, envVars, ret, mode, mgrVars, callVars,
                   imapVars, histVars>>
    /\ UNCHANGED searchVars

\* main.py: if uid_validity_changed
MainBranch ==
    /\ pc = "checked"
    /\ pc' = IF uid_validity_changed THEN "clear_db" ELSE "fetch"
    /\ UNCHANGED <<diskVars, envVars, ret, mode, mgrVars, callVars, imapVars, histVars>>
    /\ UNCHANGED searchVars

\* metadata_store.clear()
ClearDb ==
    /\ pc = "clear_db"
    /\ db' = EmptyDict
    /\ pc' = "clear_new"
    /\ UNCHANGED <<indexFile, mappingFile, tokenFile, envVars, ret, mode, mgrVars,
                   callVars, imapVars, histVars>>
    /\ UNCHANGED searchVars

\* embedding_manager = EmbeddingManager() before clear_index
ClearNew ==
    /\ pc = "clear_new"
    /\ NewManager("clear_index")
    /\ UNCHANGED <<diskVars, envVars, mode, callVars, imapVars, histVars>>
    /\ UNCHANGED searchVars

\* imap_client.fetch_emails(): one record per message, stamped with the client's
\* current_uidvalidity; an empty list ends the command
Fetch ==
    /\ pc = "fetch"
    /\ \E emails \in FetchedEmails :
        /\ Len(indexFile.vecs) + Len(emails) <= MaxIndex
        /\ IF emails = <<>>
           THEN ResetMemory
           ELSE /\ fetched_emails' = emails
                /\ pc' = "update"
                /\ UNCHANGED <<ret, mode, mgrVars, callVars, current_uidvalidity,
                               uid_validity_changed>>
    /\ UNCHANGED <<diskVars, envVars, histVars>>
    /\ UNCHANGED searchVars

\* metadata_store.update_emails(fetched_emails), one transaction
UpdateEmails ==
    /\ pc = "update"
    /\ db' = Upsert(db, fetched_emails, current_uidvalidity)
    /\ pc' = "embed_new"
    /\ UNCHANGED <<indexFile, mappingFile, tokenFile, envVars, ret, mode, mgrVars,
                   callVars, imapVars, histVars>>
    /\ UNCHANGED searchVars

\* embedding_manager = EmbeddingManager() before embed_emails
EmbedNew ==
    /\ pc = "embed_new"
    /\ NewManager("embed")
    /\ UNCHANGED <<diskVars, envVars, mode, callVars, imapVars, histVars>>
    /\ UNCHANGED searchVars

\* embedding_manager.embed_emails(fetched_emails)
FetchEmbedEmails ==
    /\ pc = "embed"
    /\ EmbedEmailsCall(fetched_emails, "set_time")
    /\ UNCHANGED searchVars

\* set_last_fetch_time and the end of the command
SetLastFetchTime ==
    /\ pc = "set_time"
    /\ ResetMemory
    /\ UNCHANGED <<diskVars, envVars, histVars>>
    /\ UNCHANGED searchVars

\* the mailbox is renumbered between two runs
TokenChange ==
    /\ pc = "idle"
    /\ mboxToken < MaxToken
    /\ mboxToken' = mboxToken + 1
    /\ UNCHANGED <<diskVars, batchSize, pc, ret, mode, mgrVars, callVars, imapVars,
                   histVars>>
    /\ UNCHANGED searchVars

\* ------------------------------------------------ specifications
ManagerSteps ==
    \/ EmbedAdd
    \/ EmbedMap
    \/ SaveIndexFile
    \/ SaveMapping
    \/ ClearUnlinkIndex
    \/ ClearUnlinkMapping

\* a process that uses one EmbeddingManager directly
NextIndexer ==
    \/ LibNew
    \/ LibEmbedEmails
    \/ LibExit
    \/ ManagerSteps

\* the fetch-emails command, run after run
NextFetch ==
    \/ FetchCmd
    \/ CheckUidValidityFail
    \/ CheckUidValidity
    \/ TokenWrite
    \/ MainBranch
    \/ ClearDb
    \/ ClearNew
    \/ Fetch
    \/ UpdateEmails
    \/ EmbedNew
    \/ FetchEmbedEmails
    \/ SetLastFetchTime
    \/ TokenChange
    \/ ManagerSteps

\* the fetch-emails command with process stops
Next ==
    \/ NextFetch
    \/ Crash

Spec == Init /\ [][Next]_vars

\* fetch cycles only, no process stop
SpecFetch == Init /\ [][NextFetch]_vars

\* manager calls only, no process stop
SpecIndexer == Init /\ [][NextIndexer]_vars

\* manager calls with process stops
SpecRecovery == Init /\ [][NextIndexer \/ Crash]_vars

\* ------------------------------------------------ the store called directly
\* bodies of records whose content differs from one fetch to the next
StoreBodies == Bodies \cup {"b"}

StoreRecords == [uid : UIDs, body : StoreBodies]

\* the lists handed to update_emails: any uids, repeated or not
StoreEmails == SeqsUpTo(StoreRecords, MaxLen)

\* the emails table with any rows of an earlier fetch
StoreTables ==
    UNION {[S -> [uidvalidity : {1}, body : StoreBodies]] : S \in SUBSET UIDs}

\* MetadataStore().update_emails(emails), the records stamped with one token
StoreUpdateEmails ==
    /\ pc = "ready" /\ mode = "store"
    /\ \E emails \in StoreEmails, uidvalidity \in Tokens :
        /\ fetched_emails' = emails
        /\ current_uidvalidity' = uidvalidity
        /\ db' = Upsert(db, emails, uidvalidity)
    /\ pc' = "stored"
    /\ UNCHANGED <<indexFile, mappingFile, tokenFile, envVars, ret, mode, mgrVars,
                   callVars, uid_validity_changed, histVars>>
    /\ UNCHANGED searchVars

\* a process that holds a MetadataStore over any table
InitStore ==
    /\ indexFile = NoIndexFile
    /\ mappingFile = NoMappingFile
    /\ tokenFile = NoTokenFile
    /\ db \in StoreTables
    /\ mboxToken = 1
    /\ batchSize = 1
    /\ pc = "ready" /\ ret = "ready" /\ mode = "store"
    /\ index = <<>> /\ uid_to_faiss_id = EmptyDict /\ faiss_id_to_uid = EmptyDict
    /\ new_emails = <<>> /\ i = 0 /\ start_id = 0
    /\ current_uidvalidity = None /\ uid_validity_changed = FALSE /\ fetched_emails = <<>>
    /\ lastR = <<>> /\ lastEnd = "none" /\ callKind = "first"
    /\ startN = 0 /\ startMaps = <<0, 0>>
    /\ crashes = 0 /\ dupCalled = FALSE /\ startTok = NoTokenFile /\ statusOK = FALSE
    /\ attempts = 0
    /\ request = NoRequest /\ neighbours = <<>> /\ results = <<>> /\ lookups = 0

NextStore == StoreUpdateEmails

SpecStore == InitStore /\ [][NextStore]_vars

\* ------------------------------------------------ update_emails that raises
\* a record update_emails cannot store: email['uid'] raises KeyError
NoUidRecords == [body : StoreBodies]

\* lists handed to update_emails with at least one such record
RaisingEmails ==
    {e \in SeqsUpTo(StoreRecords \cup NoUidRecords, MaxLen) :
        \E j \in 1..Len(e) : e[j] \in NoUidRecords}

\* the loop of update_emails inside the open transaction: the rows as the
\* connection sees them when the loop ends, and whether it ended by raising
RECURSIVE ExecuteInserts(_, _, _)
ExecuteInserts(table, emails, uidvalidity) ==
    IF emails = <<>> THEN [table |-> table, raised |-> FALSE]
    ELSE IF "uid" \notin DOMAIN Head(emails) THEN [table |-> table, raised |-> TRUE]
    ELSE ExecuteInserts(DictSet(table, Head(emails).uid,
                                [uidvalidity |-> uidvalidity, body |-> Head(emails).body]),
                        Tail(emails), uidvalidity)

\* mutant: leaving the with block commits whatever was executed
ConnectionExit_Commit(before, txn) == txn.table

\* "with self.connection:" on leaving the block: commit, or rollback when the
\* block raised
ConnectionExit(before, txn) == IF txn.raised THEN before ELSE txn.table

\* MetadataStore().update_emails(emails) over a list with a record that raises
StoreUpdateEmailsRaise ==
    /\ pc = "ready" /\ mode = "store"
    /\ \E emails \in RaisingEmails, uidvalidity \in Tokens :
        /\ fetched_emails' = emails
        /\ current_uidvalidity' = uidvalidity
        /\ db' = ConnectionExit(db, ExecuteInserts(db, emails, uidvalidity))
    /\ pc' = "store_error"
    /\ UNCHANGED <<indexFile, mappingFile, tokenFile, envVars, ret, mode, mgrVars,
                   callVars, uid_validity_changed, histVars>>
    /\ UNCHANGED searchVars

NextTxn == StoreUpdateEmails \/ StoreUpdateEmailsRaise

SpecTxn == InitStore /\ [][NextTxn]_vars

\* ------------------------------------------------ fetch cycles, content changing
\* what a fetch returns when the message behind a uid may differ from the one
\* fetched before: at most one record, with either body
RefetchedEmails == SeqsUpTo(StoreRecords, 1)

\* imap_client.fetch_emails() as in Fetch, over RefetchedEmails
FetchChanged ==
    /\ pc = "fetch"
    /\ \E emails \in RefetchedEmails :
        /\ Len(indexFile.vecs) + Len(emails) <= MaxIndex
        /\ IF emails = <<>>
           THEN ResetMemory
           ELSE /\ fetched_emails' = emails
                /\ pc' = "update"
                /\ UNCHANGED <<ret, mode, mgrVars, callVars, current_uidvalidity,
                               uid_validity_changed>>
    /\ UNCHANGED <<diskVars, envVars, histVars>>
    /\ UNCHANGED searchVars

NextRefetch ==
    \/ FetchCmd
    \/ CheckUidValidityFail
    \/ CheckUidValidity
    \/ TokenWrite
    \/ MainBranch
    \/ ClearDb
    \/ ClearNew
    \/ FetchChanged
    \/ UpdateEmails
    \/ EmbedNew
    \/ FetchEmbedEmails
    \/ SetLastFetchTime
    \/ TokenChange
    \/ ManagerSteps

SpecRefetch == Init /\ [][NextRefetch]_vars

\* manager calls with an embedding model that can fail
NextOracle ==
    \/ NextIndexer
    \/ EmbedFail

SpecOracle == Init /\ [][NextOracle]_vars

\* ------------------------------------------------ records as the client builds them
\* texts as sequences of lines; <<>> is the empty text
TextSubjects == {<<>>, <<"s">>, <<"t">>}
TextBodies == {<<"a">>}

\* clean_email_for_search on texts without [URL] / [EMAIL] marks: subject, two
\* newlines, body; runs of newlines become one; strip
CleanEmailForSearch(subject, body) == subject \o body

\* email_record of _fetch_email_batch
TextRecords ==
    {[uid |-> u, subject |-> t, body |-> b,
      search_content |-> CleanEmailForSearch(t, b)] :
        u \in UIDs, t \in TextSubjects, b \in TextBodies}

\* lists of at most two such records, one per message
TextEmails == {e \in SeqsUpTo(TextRecords, 2) : UniqueUids(e)}

\* embed_emails on records that carry subject and search_content
LibEmbedFetched ==
    /\ pc = "ready" /\ mode = "lib"
    /\ \E emails \in TextEmails : EmbedEmailsCall(emails, "ready")
    /\ UNCHANGED searchVars

NextText ==
    \/ LibNew
    \/ LibEmbedFetched
    \/ LibExit
    \/ ManagerSteps

SpecText == Init /\ [][NextText]_vars

\* ------------------------------------------------ the status command
\* status: "Up to date" when COUNT(*) of emails equals index.ntotal
StatusUpToDate(email_count, index_count) == email_count = index_count

\* status starts: MetadataStore(), the counts of the emails table, then
\* EmbeddingManager(), which loads the index or creates and saves one
StatusCmd ==
    /\ pc = "idle"
    /\ mode' = "status"
    /\ NewManager("status_report")
    /\ UNCHANGED <<diskVars, envVars, callVars, imapVars, histVars>>
    /\ UNCHANGED searchVars

\* status prints its table and ends
StatusReport ==
    /\ pc = "status_report"
    /\ ResetMemory
    /\ UNCHANGED <<diskVars, envVars, histVars>>
    /\ UNCHANGED searchVars

\* fetch cycles with an embedding model that can fail, and status between them
NextStatus ==
    \/ NextFetch
    \/ EmbedFail
    \/ StatusCmd
    \/ StatusReport

SpecStatus == Init /\ [][NextStatus]_vars

\* ------------------------------------------------ properties of the indexer
\* positions of the index that hold a vector of uid
PositionsOf(idx, uid) == {p \in 1..Len(idx) : idx[p].uid = uid}

\* the two dicts are inverse bijections between the keys and 0..N-1
Bijection(idx, u2f, f2u) ==
    /\ DictLen(u2f) = Len(idx)
    /\ DictLen(f2u) = Len(idx)
    /\ \A p \in 0..(Len(idx) - 1) :
        /\ Str(p) \in DOMAIN f2u
        /\ f2u[Str(p)] \in DOMAIN u2f
        /\ u2f[f2u[Str(p)]] = p
    /\ \A u \in DOMAIN u2f :
        /\ u2f[u] \in 0..(Len(idx) - 1)
        /\ f2u[Str(u2f[u])] = u

\* C1: a second embed_emails(R) right after a completed embed_emails(R) returns
\* at the filter: it indexes no record, and the index and both directions of
\* the mapping have the sizes the first call left.
C1_Idempotent ==
    (callKind = "repeat" /\ pc # "idle") =>
        /\ lastEnd = "done"
        /\ new_emails = <<>>
        /\ Len(index) = startN
        /\ <<DictLen(uid_to_faiss_id), DictLen(faiss_id_to_uid)>> = startMaps

C1_Witness ==
    /\ callKind = "repeat" /\ pc = "ready"
    /\ Len(lastR) >= 2 /\ Len(index) >= 2

\* C2: from an empty index, after embed_emails calls whose records have unique
\* uids, every position below the index size has exactly one uid, every uid one
\* position, and the two dicts are inverses.
C2_Bijection ==
    (pc = "ready" /\ ~dupCalled) =>
        Bijection(index, uid_to_faiss_id, faiss_id_to_uid)

C2_Witness ==
    /\ pc = "ready" /\ ~dupCalled /\ lastEnd = "done"
    /\ Len(index) = 3 /\ Len(lastR) = 1

\* C3: after any embed_emails call, also one whose records repeat a uid, every
\* uid has been appended to the index at most once and the mapping has as many
\* entries as the index has vectors.
C3_NoReembed ==
    pc = "ready" =>
        /\ DictLen(uid_to_faiss_id) = Len(index)
        /\ \A u \in UIDs : Cardinality(PositionsOf(index, u)) <= 1

\* C4: when the batch loop of embed_emails ends, the i-th new record (unique
\* uids) has position N + i, N being the index size when the call began, in both
\* dicts and in the index, whatever the batch size.
C4_Sequential ==
    (pc = "save_index" /\ lastEnd = "running" /\ UniqueUids(new_emails)) =>
        /\ Len(index) = startN + Len(new_emails)
        /\ \A j \in 1..Len(new_emails) :
            /\ uid_to_faiss_id[new_emails[j].uid] = startN + (j - 1)
            /\ faiss_id_to_uid[Str(startN + (j - 1))] = new_emails[j].uid
            /\ index[startN + j].uid = new_emails[j].uid

C4_Witness ==
    /\ pc = "save_index" /\ lastEnd = "running"
    /\ startN = 0 /\ batchSize = 2
    /\ [j \in 1..Len(new_emails) |-> new_emails[j].uid] = <<"1", "2", "3">>
    /\ uid_to_faiss_id = [u \in {"1", "2", "3"} |-> ParseInt(u) - 1]

C4_WitnessAppend ==
    /\ pc = "save_index" /\ lastEnd = "running"
    /\ startN = 2 /\ batchSize = 1 /\ Len(new_emails) = 2

\* C5: a manager that loads a persisted index never comes up with a mapping
\* whose size differs from the index size.
C5_LoadChecked ==
    [][(LibNew /\ indexFile.exists /\ ~dupCalled) =>
          /\ DictLen(uid_to_faiss_id') = Len(index')
          /\ DictLen(faiss_id_to_uid') = Len(index')]_vars

\* C6: when embed_emails(R) is run again after a process stop during
\* embed_emails(R), every record of R has exactly one index position and the
\* mapping has as many entries as the index has vectors.
C6_Recovery ==
    (pc = "ready" /\ callKind = "retry" /\ lastEnd = "done" /\ ~dupCalled) =>
        /\ DictLen(uid_to_faiss_id) = Len(index)
        /\ \A u \in UidsOf(lastR) : Cardinality(PositionsOf(index, u)) = 1

\* ------------------------------------------------ properties of the fetch cycle
\* the token uidvalidity.txt holds, None when there is none to read
PersistedToken == LoadLastUidValidity(tokenFile)

\* the token uidvalidity.txt held when the running cycle began
TokenAtStart == LoadLastUidValidity(startTok)

\* C7: in a cycle whose mailbox token differs from the persisted one, the
\* table, the index and the mapping are empty when the cycle's records are
\* about to be stored.
C7_ResetBeforeStore ==
    (pc = "update" /\ TokenAtStart # None /\ TokenAtStart # mboxToken) =>
        /\ DOMAIN db = {}
        /\ indexFile.vecs = <<>>
        /\ DOMAIN mappingFile.uid_to_faiss_id = {}
        /\ DOMAIN mappingFile.faiss_id_to_uid = {}

C9_WipeBeforePersist ==
    PersistedToken = mboxToken =>
        \A u \in DOMAIN db : db[u].uidvalidity \notin (Tokens \ {mboxToken})

\* C10: between fetch cycles every stored record carries the persisted token,
\* and no two records carry different tokens.
C10_SingleGeneration ==
    pc = "idle" =>
        /\ \A u \in DOMAIN db : tokenFile.exists /\ db[u].uidvalidity = PersistedToken
        /\ \A u, v \in DOMAIN db : db[u].uidvalidity = db[v].uidvalidity

\* ================================================================ search
\* SearchManager (search.py), EmbeddingManager.search_similar_emails
\* (embedding.py) and the search command's fallback (main.py).

\* ---------------------------------------------------------------- bounds
MaxLimit == 2      \* the limit / k argument ranges over 1..MaxLimit
MaxDist == 2       \* index.search reports distances 0..MaxDist

\* the limit search_loop passes to search_emails
LoopLimit == 5

\* ------------------------------------------------------- text
\* A str is a sequence of one-character strings.
UpperLetters == <<"A", "B", "C", "D", "E", "F", "G", "H", "I", "J", "K", "L", "M",
                  "N", "O", "P", "Q", "R", "S", "T", "U", "V", "W", "X", "Y", "Z">>
LowerLetters == <<"a", "b", "c", "d", "e", "f", "g", "h", "i", "j", "k", "l", "m",
                  "n", "o", "p", "q", "r", "s", "t", "u", "v", "w", "x", "y", "z">>

\* the small letter of every capital letter
LowerOf ==
    [c \in {UpperLetters[n] : n \in 1..Len(UpperLetters)} |->
        LowerLetters[CHOOSE n \in 1..Len(UpperLetters) : UpperLetters[n] = c]]

\* one character of str.lower() / SQL LOWER()
LowerChar(c) == IF c \in DOMAIN LowerOf THEN LowerOf[c] ELSE c

\* text.lower()
Lower(text) == [j \in 1..Len(text) |-> LowerChar(text[j])]

\* sub in text
Contains(sub, text) ==
    \E k \in 0..(Len(text) - Len(sub)) : SubSeq(text, k + 1, k + Len(sub)) = sub

\* text.split(): the maximal runs of non-blank characters
RECURSIVE Split(_)
Split(text) ==
    IF text = <<>> THEN <<>>
    ELSE IF Head(text) = " " THEN Split(Tail(text))
    ELSE LET stop == IF \E j \in 1..Len(text) : text[j] = " "
                     THEN CHOOSE j \in 1..Len(text) :
                              /\ text[j] = " "
                              /\ \A l \in 1..(j - 1) : text[l] # " "
                     ELSE Len(text) + 1
         IN  <<SubSeq(text, 1, stop - 1)>> \o Split(SubSeq(text, stop, Len(text)))

\* SQL "text LIKE pattern", the text from its t-th and the pattern from its p-th
\* character on: % is any run of characters, _ any one character, letters
\* compare without case
RECURSIVE LikeAt(_, _, _, _)
LikeAt(text, t, pattern, p) ==
    IF p > Len(pattern) THEN t > Len(text)
    ELSE IF pattern[p] = "%"
         THEN \E k \in t..(Len(text) + 1) : LikeAt(text, k, pattern, p + 1)
    ELSE IF t > Len(text) THEN FALSE
    ELSE IF pattern[p] = "_" \/ LowerChar(pattern[p]) = LowerChar(text[t])
         THEN LikeAt(text, t + 1, pattern, p + 1)
    ELSE FALSE

Like(text, pattern) == LikeAt(text, 1, pattern, 1)

\* re.search(regex, text) for a regex without metacharacters
ReSearch(regex, text) == Contains(regex, text)

\* ------------------------------------------------------- dates
\* A date column value is [fmt, ts]: the format of the text and the instant it
\* names, in half days (2 * day is midnight of that day).  "rfc2822" is the
\* Date header as received ("Sun, 13 Jul 2025 12:00:00 +0000"), "iso" is
\* "2025-07-13T12:00:00" or "2025-07-13 12:00:00", "dated" is any other text
\* that begins with YYYY-MM-DD.  A date_after / date_before argument is a day
\* number standing for its "YYYY-MM-DD" text.
DatetimeMin == 0

\* datetime.strptime(day, "%Y-%m-%d")
Strptime(day) == 2 * day

\* mutant: a text no format reads counts as the latest instant
ParseDate_Latest(date) ==
    IF date.fmt = "iso" THEN date.ts
    ELSE IF date.fmt = "dated" THEN Strptime(date.ts \div 2)
    ELSE 1000

\* _parse_date: fromisoformat reads "iso"; strptime with "%Y-%m-%d %H:%M:%S"
\* reads none of the other two; strptime of the first ten characters reads
\* "dated"; datetime.min is left for the header format
ParseDate(date) ==
    IF date.fmt = "iso" THEN date.ts
    ELSE IF date.fmt = "dated" THEN Strptime(date.ts \div 2)
    ELSE DatetimeMin

\* SQL "date >= ?" on the column's text: a text that begins with a letter is
\* above every "YYYY-MM-DD"
SqlDateGE(date, day) ==
    IF date.fmt = "rfc2822" THEN TRUE ELSE date.ts \div 2 >= day

\* text order of two date column values (ORDER BY date): digits sort below
\* letters; the days of the model are Fri 11, Sat 12 and Sun 13 July 2025, whose
\* headers sort as the days do
DateTextLess(a, b) ==
    IF (a.fmt = "rfc2822") # (b.fmt = "rfc2822")
    THEN b.fmt = "rfc2822"
    ELSE a.ts < b.ts

\* ------------------------------------------------------- semantic search
PreviewLen == 200

\* body[:200] + '...' if len(body) > 200 else body
BodyPreview(body) ==
    IF Len(body) > PreviewLen
    THEN SubSeq(body, 1, PreviewLen) \o <<".", ".", ".">>
    ELSE body

\* 1 - distance
SimilarityScore(distance) == 1 - distance

\* distances[0] of index.search
Distances(found) == [n \in 1..Len(found) |-> found[n].distance]

\* mutant: the loop that stops at the first neighbour it cannot resolve
RECURSIVE NeighbourUids_StopAtStale(_, _)
NeighbourUids_StopAtStale(found, f2u) ==
    IF found = <<>> THEN <<>>
    ELSE IF Head(found).idx = -1 \/ Str(Head(found).idx) \notin DOMAIN f2u THEN <<>>
    ELSE <<f2u[Str(Head(found).idx)]>> \o NeighbourUids_StopAtStale(Tail(found), f2u)

\* search_emails_enhanced's loop over indices[0]: the uids of the neighbours
\* that are not -1 and have a faiss_id_to_uid entry, in order
RECURSIVE NeighbourUids(_, _)
NeighbourUids(found, f2u) ==
    IF found = <<>> THEN <<>>
    ELSE IF Head(found).idx = -1 THEN NeighbourUids(Tail(found), f2u)
    ELSE IF Str(Head(found).idx) \notin DOMAIN f2u THEN NeighbourUids(Tail(found), f2u)
    ELSE <<f2u[Str(Head(found).idx)]>> \o NeighbourUids(Tail(found), f2u)

\* mutant: the lookup that is made whatever the uid list holds
HasUids_Always(uids) == TRUE

\* "if not uids: return []" negated
HasUids(uids) == uids # <<>>

\* _fetch_metadata_for_uids from enumerate index j on: one result per uid with a
\* row, scored with distances[j]
RECURSIVE FetchMetadataForUids(_, _, _, _)
FetchMetadataForUids(uids, distances, table, j) ==
    IF j >= Len(uids) THEN <<>>
    ELSE LET uid == uids[j + 1]
             hit == IF uid \in DOMAIN table
                    THEN <<[uid |-> uid,
                            subject |-> table[uid].subject,
                            sender |-> table[uid].sender,
                            date |-> table[uid].date,
                            body_preview |-> BodyPreview(table[uid].body),
                            full_body |-> table[uid].body,
                            similarity_score |->
                                IF j < Len(distances)
                                THEN SimilarityScore(distances[j + 1])
                                ELSE 0]>>
                    ELSE <<>>
         IN  hit \o FetchMetadataForUids(uids, distances, table, j + 1)

\* search_similar_emails' loop over zip(distances[0], indices[0])
RECURSIVE SimilarResults(_, _)
SimilarResults(found, f2u) ==
    IF found = <<>> THEN <<>>
    ELSE LET idx == Head(found).idx
             distance == Head(found).distance
             hit == IF idx # -1 /\ Str(idx) \in DOMAIN f2u
                    THEN <<[uid |-> f2u[Str(idx)],
                            similarity_score |-> SimilarityScore(distance),
                            distance |-> distance]>>
                    ELSE <<>>
         IN  hit \o SimilarResults(Tail(found), f2u)

\* the four filters of search_emails_enhanced; None or an empty text is falsy
FilterDateAfter(res, date_after) ==
    IF date_after = None THEN res
    ELSE SelectSeq(res, LAMBDA email : ParseDate(email.date) >= Strptime(date_after))

FilterDateBefore(res, date_before) ==
    IF date_before = None THEN res
    ELSE SelectSeq(res, LAMBDA email : ParseDate(email.date) <= Strptime(date_before))

\* mutant: a sender filter that keeps the first match only
FilterSender_FirstOnly(res, sender) ==
    IF sender = <<>> THEN res
    ELSE LET kept == SelectSeq(res, LAMBDA email :
                                  Contains(Lower(sender), Lower(email.sender)))
         IN  IF kept = <<>> THEN <<>> ELSE <<Head(kept)>>

FilterSender(res, sender) ==
    IF sender = <<>> THEN res
    ELSE SelectSeq(res, LAMBDA email : Contains(Lower(sender), Lower(email.sender)))

FilterRegex(res, regex) ==
    IF regex = <<>> THEN res
    ELSE SelectSeq(res, LAMBDA email : ReSearch(regex, email.body_preview))

ApplyFilter(name, res, req) ==
    CASE name = "date_after" -> FilterDateAfter(res, req.date_after)
      [] name = "date_before" -> FilterDateBefore(res, req.date_before)
      [] name = "sender" -> FilterSender(res, req.sender)
      [] name = "regex" -> FilterRegex(res, req.regex)

\* the filters applied one after the other in the given order
RECURSIVE ApplyFilters(_, _, _)
ApplyFilters(order, res, req) ==
    IF order = <<>> THEN res
    ELSE ApplyFilters(Tail(order), ApplyFilter(Head(order), res, req), req)

\* the order of the four if-blocks of search_emails_enhanced
CodeOrder == <<"date_after", "date_before", "sender", "regex">>

\* mutant: the sort without reverse=True
RECURSIVE InsertByScore_Ascending(_, _)
InsertByScore_Ascending(sorted, email) ==
    IF sorted = <<>> THEN <<email>>
    ELSE IF Head(sorted).similarity_score <= email.similarity_score
         THEN <<Head(sorted)>> \o InsertByScore_Ascending(Tail(sorted), email)
    ELSE <<email>> \o sorted

\* results.sort(key=similarity_score, reverse=True): a stable sort, highest first
RECURSIVE InsertByScore(_, _)
InsertByScore(sorted, email) ==
    IF sorted = <<>> THEN <<email>>
    ELSE IF Head(sorted).similarity_score >= email.similarity_score
         THEN <<Head(sorted)>> \o InsertByScore(Tail(sorted), email)
    ELSE <<email>> \o sorted

RECURSIVE SortByScore(_)
SortByScore(res) ==
    IF res = <<>> THEN <<>>
    ELSE InsertByScore(SortByScore(SubSeq(res, 1, Len(res) - 1)), res[Len(res)])

\* results[:limit]
Truncate(res, limit) == SubSeq(res, 1, IF limit < Len(res) THEN limit ELSE Len(res))

\* what search_emails_enhanced returns once it has a non-empty uid list
EnhancedResults(uids, found, table, req) ==
    Truncate(SortByScore(ApplyFilters(CodeOrder,
                                      FetchMetadataForUids(uids, Distances(found), table, 0),
                                      req)),
             req.limit)

\* ------------------------------------------------------- keyword fallback
\* f"%{keyword}%"
LikePattern(keyword) == <<"%">> \o keyword \o <<"%">>

\* the WHERE clause of keyword_fallback_search for one row
SqlWhere(row, keywords, date_after) ==
    /\ \A n \in 1..Len(keywords) :
          \/ Like(Lower(row.subject), LikePattern(keywords[n]))
          \/ Like(Lower(row.body), LikePattern(keywords[n]))
    /\ date_after # None => SqlDateGE(row.date, date_after)

\* ORDER BY date DESC over the uids of S (their date texts differ)
RECURSIVE OrderByDateDesc(_, _)
OrderByDateDesc(S, table) ==
    IF S = {} THEN <<>>
    ELSE LET first == CHOOSE u \in S :
                          \A v \in S \ {u} : DateTextLess(table[v].date, table[u].date)
         IN  <<first>> \o OrderByDateDesc(S \ {first}, table)

\* cursor.fetchall() of keyword_fallback_search: WHERE, ORDER BY date DESC, LIMIT
SqlSelect(table, keywords, date_after, limit) ==
    Truncate(OrderByDateDesc({u \in DOMAIN table : SqlWhere(table[u], keywords, date_after)},
                             table),
             limit)

\* mutant: the weights of subject and body exchanged
RECURSIVE KeywordPoints_Swapped(_, _, _)
KeywordPoints_Swapped(keywords, subject_lower, body_lower) ==
    IF keywords = <<>> THEN 0
    ELSE (IF Contains(Head(keywords), subject_lower) THEN 1 ELSE 0)
         + (IF Contains(Head(keywords), body_lower) THEN 2 ELSE 0)
         + KeywordPoints_Swapped(Tail(keywords), subject_lower, body_lower)

\* the loop of _calculate_keyword_relevance: 2.0 per keyword in the subject,
\* 1.0 per keyword in the body
RECURSIVE KeywordPoints(_, _, _)
KeywordPoints(keywords, subject_lower, body_lower) ==
    IF keywords = <<>> THEN 0
    ELSE (IF Contains(Head(keywords), subject_lower) THEN 2 ELSE 0)
         + (IF Contains(Head(keywords), body_lower) THEN 1 ELSE 0)
         + KeywordPoints(Tail(keywords), subject_lower, body_lower)

\* _calculate_keyword_relevance; the quotient score / len(keywords) is kept as
\* the fraction [num, den], 0.0 as 0 / 1
CalculateKeywordRelevance(query, subject, body) ==
    LET keywords == Split(Lower(query))
    IN  IF keywords = <<>> THEN [num |-> 0, den |-> 1]
        ELSE [num |-> KeywordPoints(keywords, Lower(subject), Lower(body)),
              den |-> Len(keywords)]

\* comparison of two fractions with positive denominators
ScoreLess(a, b) == a.num * b.den < b.num * a.den

\* results.sort(key=similarity_score, reverse=True) on relevance scores
RECURSIVE InsertByRelevance(_, _)
InsertByRelevance(sorted, email) ==
    IF sorted = <<>> THEN <<email>>
    ELSE IF ~ScoreLess(Head(sorted).similarity_score, email.similarity_score)
         THEN <<Head(sorted)>> \o InsertByRelevance(Tail(sorted), email)
    ELSE <<email>> \o sorted

RECURSIVE SortByRelevance(_)
SortByRelevance(res) ==
    IF res = <<>> THEN <<>>
    ELSE InsertByRelevance(SortByRelevance(SubSeq(res, 1, Len(res) - 1)), res[Len(res)])

\* the "Format results" loop of keyword_fallback_search over the fetched uids
RECURSIVE FormatResults(_, _, _, _)
FormatResults(rows, table, query, regex) ==
    IF rows = <<>> THEN <<>>
    ELSE LET uid == Head(rows)
             body == table[uid].body
             hit == IF regex # <<>> /\ ~ReSearch(regex, body) THEN <<>>
                    ELSE <<[uid |-> uid,
                            subject |-> table[uid].subject,
                            sender |-> table[uid].sender,
                            date |-> table[uid].date,
                            body_preview |-> BodyPreview(body),
                            full_body |-> body,
                            similarity_score |->
                                CalculateKeywordRelevance(query, table[uid].subject, body)]>>
         IN  hit \o FormatResults(Tail(rows), table, query, regex)

\* mutant: a search that hands its rows out once per process
KeywordResults_Once(table, req) ==
    IF lookups > 0 THEN <<>>
    ELSE SortByRelevance(FormatResults(SqlSelect(table, Split(Lower(req.query)),
                                                 req.date_after, req.limit),
                                       table, req.query, req.regex))

\* what keyword_fallback_search returns
KeywordResults(table, req) ==
    SortByRelevance(FormatResults(SqlSelect(table, Split(Lower(req.query)),
                                            req.date_after, req.limit),
                                  table, req.query, req.regex))

\* ------------------------------------------------------- the search calls
\* search_emails_enhanced(query, date_after, date_before, sender, regex, limit)
SearchEmailsEnhanced ==
    /\ pc = "ready" /\ mode = "search"
    /\ LET uids == NeighbourUids(neighbours, faiss_id_to_uid)
       IN  IF HasUids(uids)
           THEN /\ results' = EnhancedResults(uids, neighbours, db, request)
                /\ lookups' = lookups + 1
           ELSE /\ results' = <<>>
                /\ UNCHANGED lookups
    /\ pc' = "enhanced_done"
    /\ UNCHANGED <<diskVars, envVars, ret, mode, mgrVars, callVars, imapVars, histVars,
                   request, neighbours>>

\* embedding_manager.search_similar_emails(query, k)
SearchSimilarEmails ==
    /\ pc = "ready" /\ mode = "search"
    /\ results' = IF Len(index) = 0 THEN <<>>
                  ELSE SimilarResults(neighbours, faiss_id_to_uid)
    /\ pc' = "similar_done"
    /\ UNCHANGED <<diskVars, envVars, ret, mode, mgrVars, callVars, imapVars, histVars,
                   request, neighbours, lookups>>

\* keyword_fallback_search(query, date_after, regex, limit), called directly or
\* by the search command when search_emails_enhanced returned nothing
KeywordFallbackSearch ==
    /\ \/ pc = "ready" /\ mode = "search"
       \/ pc = "enhanced_done" /\ results = <<>>
    /\ results' = KeywordResults(db, request)
    /\ lookups' = lookups + 1
    /\ pc' = "keyword_done"
    /\ UNCHANGED <<diskVars, envVars, ret, mode, mgrVars, callVars, imapVars, histVars,
                   request, neighbours>>

\* keyword_fallback_search called once more with the arguments of the call
\* before, on the same SearchManager
KeywordFallbackAgain ==
    /\ pc = "keyword_done"
    /\ results' = KeywordResults(db, request)
    /\ lookups' = lookups + 1
    /\ pc' = "keyword_again"
    /\ UNCHANGED <<diskVars, envVars, ret, mode, mgrVars, callVars, imapVars, histVars,
                   request, neighbours>>

\* search_loop: search_manager.search_emails(query, date_after=after_date, limit=5),
\* which calls search_emails_enhanced(query, date_after, None, None, regex, limit).
\* The request's limit stands for the 5 of the loop where no limit up to 5 cuts
\* the neighbours of the index.
SearchLoopSearchEmails ==
    /\ pc = "ready" /\ mode = "search"
    /\ request.date_before = None /\ request.sender = <<>> /\ request.regex = <<>>
    /\ Len(index) <= request.limit /\ request.limit <= LoopLimit
    /\ LET uids == NeighbourUids(neighbours, faiss_id_to_uid)
       IN  IF HasUids(uids)
           THEN /\ results' = EnhancedResults(uids, neighbours, db, request)
                /\ lookups' = lookups + 1
           ELSE /\ results' = <<>>
                /\ UNCHANGED lookups
    /\ pc' = "loop_done"
    /\ UNCHANGED <<diskVars, envVars, ret, mode, mgrVars, callVars, imapVars, histVars,
                   request, neighbours>>

\* search_loop: "No results found." when the list is empty, the separator line,
\* and the next prompt
SearchLoopPrompt ==
    /\ pc = "loop_done"
    /\ results' = <<>>
    /\ lookups' = 0
    /\ pc' = "ready"
    /\ UNCHANGED <<diskVars, envVars, ret, mode, mgrVars, callVars, imapVars, histVars,
                   request, neighbours>>

NextSearch ==
    \/ SearchEmailsEnhanced
    \/ SearchSimilarEmails
    \/ KeywordFallbackSearch
    \/ KeywordFallbackAgain

\* ------------------------------------------------------- search inputs
KeyText == <<"k", "e", "y">>
MemoText == <<"m", "e", "m", "o">>

\* a body whose only "key" lies behind the first PreviewLen characters
LongBody == [j \in 1..PreviewLen |-> "x"] \o KeyText

\* the rows the semantic search works on, as a fetch cycle stores them; uid "3"
\* carries the Date header as received
SearchCatalogue ==
    [u \in UIDs |->
        CASE u = "1" -> [uidvalidity |-> 1, subject |-> <<"K", "e", "y">>,
                         sender |-> <<"B", "o", "b">>,
                         date |-> [fmt |-> "iso", ts |-> 5], body |-> KeyText]
          [] u = "2" -> [uidvalidity |-> 1, subject |-> MemoText,
                         sender |-> <<"a", "m", "y">>,
                         date |-> [fmt |-> "iso", ts |-> 4], body |-> MemoText]
          [] u = "3" -> [uidvalidity |-> 1, subject |-> MemoText,
                         sender |-> <<"b", "o", "b">>,
                         date |-> [fmt |-> "rfc2822", ts |-> 6], body |-> LongBody]]

\* the emails table with any of the three rows stored
SearchTables == {[u \in S |-> SearchCatalogue[u]] : S \in SUBSET UIDs}

\* subjects and bodies of the rows the keyword search works on
KeywordSubjects == {<<"K", "e", "y">>, <<"k", "a", "y">>}
KeywordBodies == {MemoText \o <<" ">> \o KeyText, MemoText}

\* the date of the row of each uid: "1" is the oldest
KeywordDates ==
    [u \in UIDs |->
        CASE u = "1" -> [fmt |-> "iso", ts |-> 2]
          [] u = "2" -> [fmt |-> "iso", ts |-> 5]
          [] u = "3" -> [fmt |-> "rfc2822", ts |-> 6]]

KeywordTables ==
    UNION {{[u \in S |-> [uidvalidity |-> 1, subject |-> t[u][1],
                          sender |-> <<"b", "o", "b">>,
                          date |-> KeywordDates[u], body |-> t[u][2]]] :
               t \in [S -> KeywordSubjects \X KeywordBodies]} : S \in SUBSET UIDs}

\* the queries of the keyword search: no token, one token, two tokens with
\* capitals, a token with the LIKE wildcard _
KeywordQueries ==
    {<<>>, KeyText, MemoText, <<"K", "E", "Y", " ", "m", "e", "m", "o">>,
     <<"k", "_", "y">>}

\* the index after n records with uids "1".."n" were embedded in order
IndexOf(n) == [p \in 1..n |-> [uid |-> Str(p), vec |-> Encode("a")]]

\* faiss_id_to_uid with the entries of the positions in P
MappingOf(P) == [k \in {Str(p) : p \in P} |-> Str(ParseInt(k) + 1)]

\* uid_to_faiss_id as _load_mapping reads it next to f2u
InverseOf(f2u) ==
    [u \in {f2u[k] : k \in DOMAIN f2u} |->
        ParseInt(CHOOSE k \in DOMAIN f2u : f2u[k] = u)]

\* the distance index.search reports next to a -1
PadDistance == MaxDist + 1

InjectiveSeqs(S, m) ==
    {q \in SeqsUpTo(S, m) : Len(q) = m /\ \A a, b \in 1..m : a # b => q[a] # q[b]}

SortedSeqs(S, m) ==
    {q \in SeqsUpTo(S, m) : Len(q) = m /\ \A a \in 1..(m - 1) : q[a] <= q[a + 1]}

\* what index.search(query, k) can return on an index of n vectors: distinct
\* positions, nearest first, then -1 up to k columns; an HNSW index may find
\* fewer than min(n, k) neighbours
NeighbourLists(n, k, Ds) ==
    UNION {{[j \in 1..k |-> IF j <= m
                            THEN [idx |-> ps[j], distance |-> ds[j]]
                            ELSE [idx |-> -1, distance |-> PadDistance]] :
               ps \in InjectiveSeqs(0..(n - 1), m), ds \in SortedSeqs(Ds, m)} :
           m \in (IF n = 0 THEN {0} ELSE 1..(IF n < k THEN n ELSE k))}

\* the arguments of one call
Requests(queries, afters, befores, senders, regexes) ==
    [query : queries, date_after : afters, date_before : befores,
     sender : senders, regex : regexes, limit : 1..MaxLimit]

\* a search process after SearchManager(): the manager has loaded what is on
\* disk, nothing else has run
SearchReady ==
    /\ tokenFile = [exists |-> TRUE, text |-> Str(1)]
    /\ mboxToken = 1
    /\ batchSize = 1
    /\ pc = "ready" /\ ret = "ready" /\ mode = "search"
    /\ new_emails = <<>> /\ i = 0 /\ start_id = 0
    /\ current_uidvalidity = None /\ uid_validity_changed = FALSE /\ fetched_emails = <<>>
    /\ lastR = <<>> /\ lastEnd = "none" /\ callKind = "first"
    /\ startN = 0 /\ startMaps = <<0, 0>>
    /\ crashes = 0 /\ dupCalled = FALSE /\ startTok = NoTokenFile /\ statusOK = FALSE
    /\ attempts = 0
    /\ results = <<>> /\ lookups = 0

\* the index and the mapping in memory are the ones on disk
Loaded ==
    /\ uid_to_faiss_id = InverseOf(faiss_id_to_uid)
    /\ indexFile = [exists |-> TRUE, vecs |-> index]
    /\ mappingFile = MappingData(uid_to_faiss_id, faiss_id_to_uid)

\* semantic search over every index size, every set of positions that still
\* have a mapping entry and every neighbour list; a sender filter at most
InitSearch ==
    /\ SearchReady
    /\ index \in {IndexOf(n) : n \in 0..Cardinality(UIDs)}
    /\ faiss_id_to_uid \in {MappingOf(P) : P \in SUBSET (0..(Len(index) - 1))}
    /\ Loaded
    /\ db \in SearchTables
    /\ request \in Requests({KeyText}, {None}, {None}, {<<>>, <<"b", "o">>}, {<<>>})
    /\ neighbours \in NeighbourLists(Len(index), request.limit, 0..MaxDist)

\* semantic search with every combination of the four filters, on a full index
\* and mapping, the neighbours at equal distance
InitFilter ==
    /\ SearchReady
    /\ index = IndexOf(Cardinality(UIDs))
    /\ faiss_id_to_uid = MappingOf(0..(Len(index) - 1))
    /\ Loaded
    /\ db \in SearchTables
    /\ request \in Requests({KeyText}, {None, 2, 3}, {None, 2},
                            {<<>>, <<"b", "o">>}, {<<>>, KeyText})
    /\ neighbours \in NeighbourLists(Len(index), request.limit, {1})

\* keyword search over every table of keyword rows, with nothing indexed
InitKeyword ==
    /\ SearchReady
    /\ index = <<>>
    /\ faiss_id_to_uid = EmptyDict
    /\ Loaded
    /\ db \in KeywordTables
    /\ request \in Requests(KeywordQueries, {None, 2}, {None}, {<<>>}, {<<>>, KeyText})
    /\ neighbours \in NeighbourLists(0, request.limit, 0..MaxDist)

SpecSearch == InitSearch /\ [][NextSearch]_vars

SpecFilter == InitFilter /\ [][NextSearch]_vars

\* semantic search with date bounds only, among them day 0, which stands for
\* "0001-01-01", the day of datetime.min
InitDates ==
    /\ SearchReady
    /\ index = IndexOf(Cardinality(UIDs))
    /\ faiss_id_to_uid = MappingOf(0..(Len(index) - 1))
    /\ Loaded
    /\ db \in SearchTables
    /\ request \in Requests({KeyText}, {None, 0, 2, 3}, {None, 0, 2}, {<<>>}, {<<>>})
    /\ neighbours \in NeighbourLists(Len(index), request.limit, {1})

SpecKeyword == InitKeyword /\ [][NextSearch]_vars

SpecDates == InitDates /\ [][NextSearch]_vars

\* the search calls and the interactive loop
NextLoop ==
    \/ NextSearch
    \/ SearchLoopSearchEmails
    \/ SearchLoopPrompt

SpecLoop == InitSearch /\ [][NextLoop]_vars

\* ------------------------------------------------ properties of the search
\* the neighbours that are a position with a mapping entry, in order
Resolved(found, f2u) ==
    SelectSeq(found, LAMBDA nb : nb.idx # -1 /\ Str(nb.idx) \in DOMAIN f2u)

\* the uid the mapping gives a resolved neighbour
UidAt(nb) == faiss_id_to_uid[Str(nb.idx)]

\* the candidates of the call: one hydrated record per resolved neighbour that
\* has a row
Hydrated ==
    FetchMetadataForUids(NeighbourUids(neighbours, faiss_id_to_uid),
                         Distances(neighbours), db, 0)

SetOf(seq) == {seq[j] : j \in 1..Len(seq)}

Count(x, seq) == Cardinality({j \in 1..Len(seq) : seq[j] = x})

NoFilter(req) ==
    /\ req.date_after = None /\ req.date_before = None
    /\ req.sender = <<>> /\ req.regex = <<>>

\* C11: a neighbour that is -1 or a position without a mapping entry gives no
\* result and no error: search_similar_emails returns exactly the resolved
\* neighbours, in order, and search_emails_enhanced without filters returns
\* exactly those of them that have a row.
C11_StaleDropped ==
    /\ pc = "similar_done" =>
          [j \in 1..Len(results) |-> results[j].uid]
              = [j \in 1..Len(Resolved(neighbours, faiss_id_to_uid)) |->
                    UidAt(Resolved(neighbours, faiss_id_to_uid)[j])]
    /\ (pc = "enhanced_done" /\ NoFilter(request)) =>
          /\ {results[j].uid : j \in 1..Len(results)}
                = {UidAt(nb) : nb \in SetOf(Resolved(neighbours, faiss_id_to_uid))}
                      \cap DOMAIN db
          /\ \A j, l \in 1..Len(results) : j # l => results[j].uid # results[l].uid

C11_Witness ==
    /\ pc = "enhanced_done" /\ NoFilter(request)
    /\ Len(neighbours) = 2
    /\ neighbours[1].idx # -1 /\ Str(neighbours[1].idx) \notin DOMAIN faiss_id_to_uid
    /\ neighbours[2].idx # -1 /\ Str(neighbours[2].idx) \in DOMAIN faiss_id_to_uid
    /\ Len(results) = 1 /\ results[1].uid = UidAt(neighbours[2])

\* C12: when no neighbour resolves (an empty index included), both searches
\* return the empty list and send no query to the emails table.
C12_EmptyNoLookup ==
    (pc \in {"enhanced_done", "similar_done"}
        /\ Resolved(neighbours, faiss_id_to_uid) = <<>>) =>
        /\ results = <<>>
        /\ lookups = 0

C12_Witness ==
    /\ pc = "enhanced_done" /\ index = <<>> /\ DOMAIN db = UIDs
    /\ results = <<>> /\ lookups = 0

\* C13: every record search_emails_enhanced returns carries 1 - d, d being the
\* distance reported for the position the record's uid is mapped from, and the
\* (uid, score) pair is one search_similar_emails produces for the same query.
C13_ScorePairing ==
    pc = "enhanced_done" =>
        \A j \in 1..Len(results) :
            /\ \E nb \in SetOf(Resolved(neighbours, faiss_id_to_uid)) :
                  /\ UidAt(nb) = results[j].uid
                  /\ results[j].similarity_score = 1 - nb.distance
            /\ \E sim \in SetOf(SimilarResults(neighbours, faiss_id_to_uid)) :
                  /\ sim.uid = results[j].uid
                  /\ sim.similarity_score = results[j].similarity_score

\* C14: search_emails_enhanced returns at most limit records, highest score
\* first, all of them candidates that passed the filters, min(limit, survivors)
\* of them, and no survivor left out scores higher than a record returned.
C14_RankedTruncated ==
    pc = "enhanced_done" =>
        LET survivors == ApplyFilters(CodeOrder, Hydrated, request)
        IN  /\ Len(results) <= request.limit
            /\ \A j \in 1..(Len(results) - 1) :
                  results[j].similarity_score >= results[j + 1].similarity_score
            /\ \A x \in SetOf(results) : Count(x, results) <= Count(x, survivors)
            /\ Len(results) = IF request.limit < Len(survivors)
                              THEN request.limit ELSE Len(survivors)
            /\ \A x \in SetOf(survivors) :
                  Count(x, results) < Count(x, survivors) =>
                      \A j \in 1..Len(results) :
                          results[j].similarity_score >= x.similarity_score

C14_Witness ==
    /\ pc = "enhanced_done" /\ request.sender # <<>>
    /\ Len(Hydrated) = 2 /\ Len(results) = 2
    /\ results[1].similarity_score > results[2].similarity_score

\* the instant a record's date names
Timestamp(email) == email.date.ts

\* C15: without a pattern, a candidate is returned exactly when its timestamp
\* is not before midnight of date_after (when given), not after midnight of
\* date_before (when given) and its sender contains the sender argument without
\* regard to case (when given).
C15_DateSenderFilters ==
    (pc = "enhanced_done" /\ request.regex = <<>>) =>
        \A email \in SetOf(Hydrated) :
            email \in SetOf(results) <=>
                /\ request.date_after # None =>
                      Timestamp(email) >= Strptime(request.date_after)
                /\ request.date_before # None =>
                      Timestamp(email) <= Strptime(request.date_before)
                /\ request.sender # <<>> =>
                      Contains(Lower(request.sender), Lower(email.sender))

\* C16: with a pattern and no other filter, a candidate is returned exactly when
\* the pattern matches somewhere in its stored body; every record the keyword
\* fallback returns has a body the pattern matches.
C16_PatternOnBody ==
    /\ (pc = "enhanced_done" /\ request.regex # <<>>
           /\ request.date_after = None /\ request.date_before = None
           /\ request.sender = <<>>) =>
          \A email \in SetOf(Hydrated) :
              email \in SetOf(results) <=> ReSearch(request.regex, email.full_body)
    /\ (pc = "keyword_done" /\ request.regex # <<>>) =>
          \A email \in SetOf(results) : ReSearch(request.regex, email.full_body)

\* the 24 orders of the four filters
FilterOrders == InjectiveSeqs(SetOf(CodeOrder), Len(CodeOrder))

\* C17: whatever the candidates and the filters given, the four filters applied
\* in any order leave the set of records search_emails_enhanced returns.
C17_OrderIndependent ==
    pc = "enhanced_done" =>
        \A order \in FilterOrders :
            SetOf(ApplyFilters(order, Hydrated, request)) = SetOf(results)

C17_Witness ==
    /\ pc = "enhanced_done"
    /\ request.date_after # None /\ request.date_before # None
    /\ request.sender # <<>> /\ request.regex # <<>>
    /\ Len(Hydrated) = 2
    /\ Len(FilterDateBefore(Hydrated, request.date_before)) = 1
    /\ Len(FilterSender(Hydrated, request.sender)) = 1
    /\ results = <<>>

C17_WitnessKept ==
    /\ pc = "enhanced_done"
    /\ request.date_after # None /\ request.sender # <<>> /\ request.regex # <<>>
    /\ Len(Hydrated) = 2 /\ Len(results) = 1

\* ------------------------------------------------ properties of the keyword fallback
\* the lowercase tokens of the call's query
QueryTokens == Split(Lower(request.query))

InSubject(token, email) == Contains(token, Lower(email.subject))

InBody(token, email) == Contains(token, Lower(email.full_body))

\* C18: every record keyword_fallback_search returns contains every token of
\* the query in its subject or its body, without regard to case.
C18_EveryToken ==
    pc = "keyword_done" =>
        \A email \in SetOf(results) :
            \A n \in 1..Len(QueryTokens) :
                InSubject(QueryTokens[n], email) \/ InBody(QueryTokens[n], email)

\* number of tokens of the query found in the subject, and in the body
FoundInSubject(email) ==
    Cardinality({n \in 1..Len(QueryTokens) : InSubject(QueryTokens[n], email)})

FoundInBody(email) ==
    Cardinality({n \in 1..Len(QueryTokens) : InBody(QueryTokens[n], email)})

\* C19: a returned record's score is (2 * tokens found in the subject + tokens
\* found in the body) / number of tokens, and 0 for a query without tokens; of
\* two records that differ on one token only, the one with the token in its
\* subject scores strictly higher than the one with it in its body only.
C19_KeywordScore ==
    pc = "keyword_done" =>
        /\ \A email \in SetOf(results) :
              IF QueryTokens = <<>>
              THEN email.similarity_score.num = 0
              ELSE email.similarity_score.num * Len(QueryTokens)
                      = (2 * FoundInSubject(email) + FoundInBody(email))
                            * email.similarity_score.den
        /\ \A a, b \in SetOf(results) :
              \A n \in 1..Len(QueryTokens) :
                  (/\ InSubject(QueryTokens[n], a)
                   /\ ~InSubject(QueryTokens[n], b) /\ InBody(QueryTokens[n], b)
                   /\ \A m \in 1..Len(QueryTokens) :
                         QueryTokens[m] # QueryTokens[n] =>
                             /\ InSubject(QueryTokens[m], a) <=> InSubject(QueryTokens[m], b)
                             /\ InBody(QueryTokens[m], a) <=> InBody(QueryTokens[m], b))
                  => ScoreLess(b.similarity_score, a.similarity_score)

C19_Witness ==
    /\ pc = "keyword_done" /\ Len(QueryTokens) = 2 /\ Len(results) = 2
    /\ InSubject(QueryTokens[1], results[1]) /\ ~InBody(QueryTokens[1], results[1])
    /\ ~InSubject(QueryTokens[1], results[2]) /\ InBody(QueryTokens[1], results[2])
    /\ results[1].similarity_score = [num |-> 3, den |-> 2]
    /\ results[2].similarity_score = [num |-> 2, den |-> 2]

C19_WitnessNoToken ==
    /\ pc = "keyword_done" /\ QueryTokens = <<>> /\ Len(results) = 2
    /\ results[1].similarity_score = [num |-> 0, den |-> 1]

\* the rows that satisfy the query's WHERE clause and the pattern
Satisfying ==
    {u \in DOMAIN db :
        /\ SqlWhere(db[u], QueryTokens, request.date_after)
        /\ request.regex # <<>> => ReSearch(request.regex, db[u].body)}

ScoreOf(u) == CalculateKeywordRelevance(request.query, db[u].subject, db[u].body)

\* C20: keyword_fallback_search returns satisfying rows, highest score first,
\* min(limit, satisfying rows) of them, and no satisfying row left out scores
\* strictly higher than a row returned.
C20_KeywordRanked ==
    pc = "keyword_done" =>
        /\ \A j \in 1..Len(results) : results[j].uid \in Satisfying
        /\ \A j \in 1..(Len(results) - 1) :
              ~ScoreLess(results[j].similarity_score, results[j + 1].similarity_score)
        /\ Len(results) = IF request.limit < Cardinality(Satisfying)
                          THEN request.limit ELSE Cardinality(Satisfying)
        /\ \A u \in Satisfying \ {results[j].uid : j \in 1..Len(results)} :
              \A j \in 1..Len(results) :
                  ~ScoreLess(results[j].similarity_score, ScoreOf(u))

C27_FallbackOnEmpty ==
    [][(pc \in {"enhanced_done", "loop_done"})
         => (results = <<>> <=> pc' = "keyword_done")]_vars

\* what the four filters of the request ask of a record
SatisfiesFilters(email, req) ==
    /\ req.date_after # None => Timestamp(email) >= Strptime(req.date_after)
    /\ req.date_before # None => Timestamp(email) <= Strptime(req.date_before)
    /\ req.sender # <<>> => Contains(Lower(req.sender), Lower(email.sender))
    /\ req.regex # <<>> => ReSearch(req.regex, email.full_body)

\* C28: every record the search command shows, from the semantic search or
\* from the keyword fallback, satisfies the date bounds, the sender and the
\* pattern of the command line.
C28_ShownSatisfyFilters ==
    (pc \in {"enhanced_done", "keyword_done"}) =>
        \A email \in SetOf(results) : SatisfiesFilters(email, request)

\* C22: when the oracle fails on a batch, embed_emails calls it again for that
\* batch, and the error reaches the caller only after more than one call.
C22_BoundedRetry ==
    lastEnd = "error" => attempts > 1

\* C23: a call of embed_emails in which the oracle fails writes neither the
\* index file nor the mapping file, and when it has handed the error to its
\* caller the manager's index and maps hold what they held when the call began.
C23_NoPartialApply ==
    /\ [][(lastEnd = "running" /\ pc \in {"embed_add", "embed_map"})
             => UNCHANGED <<indexFile, mappingFile>>]_vars
    /\ []((lastEnd = "error" /\ pc = "ready")
             => /\ Len(index) = startN
                /\ <<DictLen(uid_to_faiss_id), DictLen(faiss_id_to_uid)>> = startMaps)

\* the files of an index and a mapping with no entry
EmptyPairOnDisk ==
    /\ indexFile = [exists |-> TRUE, vecs |-> <<>>]
    /\ mappingFile = MappingData(EmptyDict, EmptyDict)

\* C25: clear_index empties the index and both maps in memory and leaves files
\* that describe an empty pair; the embed_emails after it numbers positions
\* from 0; and no step other than clear_index takes an entry out of the
\* Identity Map, in the files or in a running manager.
C25_ClearResetsPair ==
    /\ [][pc = "clear_unlink_mapping"
            => /\ index' = <<>>
               /\ uid_to_faiss_id' = EmptyDict /\ faiss_id_to_uid' = EmptyDict
               /\ ~indexFile'.exists /\ ~mappingFile'.exists]_vars
    /\ []((pc = "ready" /\ lastEnd = "none")
            => /\ index = <<>>
               /\ uid_to_faiss_id = EmptyDict /\ faiss_id_to_uid = EmptyDict
               /\ EmptyPairOnDisk)
    /\ [][(lastEnd = "none" /\ lastEnd' = "running") => startN' = 0]_vars
    /\ [][pc # "clear_unlink_mapping"
            => /\ DOMAIN mappingFile.uid_to_faiss_id \subseteq DOMAIN mappingFile'.uid_to_faiss_id
               /\ DOMAIN mappingFile.faiss_id_to_uid \subseteq DOMAIN mappingFile'.faiss_id_to_uid
               /\ pc' # "idle" =>
                     /\ DOMAIN uid_to_faiss_id \subseteq DOMAIN uid_to_faiss_id'
                     /\ DOMAIN faiss_id_to_uid \subseteq DOMAIN faiss_id_to_uid']_vars

\* clear_index is under way on a manager that holds two records
C25_Witness ==
    /\ pc = "clear_unlink_mapping"
    /\ Len(index) = 2 /\ DictLen(uid_to_faiss_id) = 2
    /\ mappingFile.exists /\ DictLen(mappingFile.faiss_id_to_uid) = 2

\* the number of batches of n records in batches of b
Ceil(n, b) == (n + b - 1) \div b

\* C26: embed_emails with n new records and batch size b runs _embed_batch
\* Ceil(n, b) times, each run one oracle call and one append of 1..b vectors,
\* n vectors in all; with no new record it makes no call and no append and
\* writes no file.
C26_OneCallPerBatch ==
    /\ []((pc = "save_index" /\ lastEnd = "running")
            => /\ i = Ceil(Len(new_emails), batchSize) * batchSize
               /\ Len(index) = startN + Len(new_emails))
    /\ [][(pc = "embed_add" /\ pc' = "embed_map")
            => /\ Len(index') - Len(index) \in 1..batchSize
               /\ UNCHANGED <<indexFile, mappingFile>>]_vars
    /\ [][(pc = "ready" /\ pc' = "ready" /\ mode = "lib")
            => /\ new_emails' = <<>>
               /\ UNCHANGED <<diskVars, mgrVars>>]_vars

\* three new records went through two batches of at most two
C26_Witness ==
    /\ pc = "save_index" /\ lastEnd = "running"
    /\ batchSize = 2 /\ Len(new_emails) = 3 /\ i = 4
    /\ Len(index) = startN + 3

\* the last record of the list with the given uid
LastWith(emails, uid) ==
    emails[CHOOSE j \in 1..Len(emails) :
              /\ emails[j].uid = uid
              /\ \A k \in (j + 1)..Len(emails) : emails[k].uid # uid]

\* C24: update_emails(E) leaves one row per uid: for a uid of E the row is the
\* last record of E with that uid, whatever was stored before; rows of other
\* uids are as they were; the number of rows grows by the number of uids of E
\* that had no row.
C24_Upsert ==
    [][pc' = "stored"
         => /\ DOMAIN db' = DOMAIN db \cup UidsOf(fetched_emails')
            /\ \A u \in UidsOf(fetched_emails') :
                  db'[u] = [uidvalidity |-> current_uidvalidity',
                            body |-> LastWith(fetched_emails', u).body]
            /\ \A u \in DOMAIN db \ UidsOf(fetched_emails') : db'[u] = db[u]
            /\ DictLen(db') = DictLen(db)
                                + Cardinality(UidsOf(fetched_emails') \ DOMAIN db)]_vars

\* uid "1" came twice with different bodies and the second one is stored, over
\* a row of an older token; the row of uid "2" was not in the list
C24_Witness ==
    /\ pc = "stored"
    /\ fetched_emails = <<[uid |-> "1", body |-> "b"], [uid |-> "3", body |-> "a"],
                          [uid |-> "1", body |-> "a"]>>
    /\ current_uidvalidity = 2
    /\ db = [u \in UIDs |-> IF u = "2" THEN [uidvalidity |-> 1, body |-> "b"]
                             ELSE [uidvalidity |-> 2, body |-> "a"]]

\* a is the beginning of b
IsPrefix(a, b) == Len(a) <= Len(b) /\ SubSeq(b, 1, Len(a)) = a

\* C29: in a fetch cycle that starts with the persisted token equal to the
\* mailbox token, no step writes the token file, removes a row of the emails
\* table, removes a key of the persisted mapping or a vector of the persisted
\* index, or removes one from the running manager: they only grow.
C29_UnchangedTokenKeeps ==
    [][(mode = "fetch" /\ TokenAtStart = mboxToken)
         => /\ tokenFile' = tokenFile
            /\ DOMAIN db \subseteq DOMAIN db'
            /\ DOMAIN mappingFile.uid_to_faiss_id \subseteq DOMAIN mappingFile'.uid_to_faiss_id
            /\ DOMAIN mappingFile.faiss_id_to_uid \subseteq DOMAIN mappingFile'.faiss_id_to_uid
            /\ IsPrefix(indexFile.vecs, indexFile'.vecs)
            /\ pc' # "idle" =>
                  /\ DOMAIN uid_to_faiss_id \subseteq DOMAIN uid_to_faiss_id'
                  /\ DOMAIN faiss_id_to_uid \subseteq DOMAIN faiss_id_to_uid'
                  /\ IsPrefix(index, index')]_vars

\* a cycle with an unchanged token has stored and indexed a third record next
\* to the two of the cycles before
C29_Witness ==
    /\ mode = "fetch" /\ pc = "set_time"
    /\ TokenAtStart = mboxToken /\ PersistedToken = mboxToken
    /\ DictLen(db) = 3
    /\ Len(indexFile.vecs) = 3 /\ DictLen(mappingFile.uid_to_faiss_id) = 3
    /\ Len(fetched_emails) = 1

\* C30: between fetch cycles, for every stored record that has a position, the
\* persisted vector at that position is the embedding of the body stored for
\* its uid.
C30_VectorMatchesStore ==
    pc = "idle" =>
        \A u \in DOMAIN db \cap DOMAIN mappingFile.uid_to_faiss_id :
            LET pos == mappingFile.uid_to_faiss_id[u]
            IN  /\ pos < Len(indexFile.vecs)
                /\ indexFile.vecs[pos + 1].vec = Encode(db[u].body)

\* C31: a fetch cycle that ends without an error leaves the emails table and
\* the persisted mapping with the same uids and as many rows as the persisted
\* index has vectors, and status, run when the last embedding did not fail,
\* finds the two counts equal.
C31_StoreIndexCover ==
    /\ [][(mode = "fetch" /\ pc' = "idle" /\ lastEnd' # "error")
            => /\ DOMAIN db' = DOMAIN mappingFile'.uid_to_faiss_id
               /\ DictLen(db') = Len(indexFile'.vecs)]_vars
    /\ []((pc = "status_report" /\ lastEnd # "error")
            => StatusUpToDate(DictLen(db), Len(index)))

\* C32: the vector appended for a record is the embedding of its search text,
\* subject then body, so that records of one call with equal bodies and
\* different subjects get the embeddings of different texts.
C32_EmbedsSearchText ==
    (pc = "save_index" /\ lastEnd = "running") =>
        /\ \A j \in 1..Len(new_emails) :
              index[startN + j].vec = Encode(new_emails[j].search_content)
        /\ \A j, k \in 1..Len(new_emails) :
              (new_emails[j].body = new_emails[k].body
                  /\ new_emails[j].subject # new_emails[k].subject)
                  => index[startN + j].vec # index[startN + k].vec

\* a stored date text that none of the formats of _parse_date reads
Unparsable(date) == date.fmt \notin {"iso", "dated"}

\* C33 as stated: of the candidates whose date cannot be parsed,
\* search_emails_enhanced returns none when a lower bound is given and, with
\* an upper bound only, all.
C33_UnparsableIsMinimumAlways ==
    pc = "enhanced_done" =>
        \A email \in SetOf(Hydrated) :
            Unparsable(email.date) =>
                /\ request.date_after # None => email \notin SetOf(results)
                /\ (request.date_after = None /\ request.date_before # None)
                      => email \in SetOf(results)

\* C33, amended: a candidate whose date cannot be parsed is compared as
\* datetime.min: it is returned exactly when the lower bound, if given, is
\* the day of datetime.min itself; every upper bound keeps it.
C33_UnparsableIsMinimum ==
    pc = "enhanced_done" =>
        \A email \in SetOf(Hydrated) :
            Unparsable(email.date) =>
                (email \in SetOf(results) <=>
                    (request.date_after # None
                        => Strptime(request.date_after) = DatetimeMin))

\* the only candidate carries a Date header; the lower bound drops it
C33_Witness ==
    /\ pc = "enhanced_done"
    /\ request.date_after = 3 /\ request.date_before = None
    /\ Len(Hydrated) = 1 /\ Hydrated[1].uid = "3" /\ Unparsable(Hydrated[1].date)
    /\ results = <<>>

C35_UpdateAllOrNothing ==
    [][pc' = "store_error" => db' = db]_vars

\* the call stored a new uid before it reached the record that raised, and
\* the table has no row for it
C35_Witness ==
    /\ pc = "store_error"
    /\ Len(fetched_emails) = 2
    /\ "uid" \in DOMAIN fetched_emails[1]
    /\ "uid" \notin DOMAIN fetched_emails[2]
    /\ fetched_emails[1].uid \notin DOMAIN db

\* C36: a check_uid_validity that does not get the mailbox token returns
\* False and leaves the token file as it is; the cycle goes on to the fetch,
\* and from there to its end no row leaves the emails table, no vector or
\* mapping entry leaves the files and the token file stays the same.
C36_ReadFailureIsNoChange ==
    /\ [][(pc = "check" /\ pc' # "check" /\ ~statusOK') =>
            /\ uid_validity_changed' = FALSE
            /\ tokenFile' = tokenFile]_vars
    /\ [][(pc = "checked" /\ ~statusOK) => pc' = "fetch"]_vars
    /\ [][(mode = "fetch" /\ pc # "check" /\ ~statusOK) =>
            /\ tokenFile' = tokenFile
            /\ \A uid \in DOMAIN db : uid \in DOMAIN db'
            /\ indexFile.exists => indexFile'.exists
            /\ IsPrefix(indexFile.vecs, indexFile'.vecs)
            /\ mappingFile.exists => mappingFile'.exists
            /\ \A uid \in DOMAIN mappingFile.uid_to_faiss_id :
                    uid \in DOMAIN mappingFile'.uid_to_faiss_id]_vars

\* the mailbox token differs from the stored one, the check did not read it,
\* and the cycle is storing new records next to the old rows and vectors
C36_Witness ==
    /\ mode = "fetch" /\ pc = "update" /\ ~statusOK
    /\ tokenFile.exists /\ tokenFile = startTok
    /\ LoadLastUidValidity(tokenFile) # mboxToken
    /\ DictLen(db) > 0 /\ Len(indexFile.vecs) > 0
    /\ uid_validity_changed = FALSE

====
